---- MODULE Spec2Model ----
(***************************************************************************)
(* Travel itinerary planner: the interest-refinement dialogue              *)
(* (main.py, agents/interest_refinement_agent.py), the budget filter       *)
(* (agents/budget_agent.py), the budget step of the planning pipeline      *)
(* (main.py run_pipeline), the scheduler (agents/scheduler_agent.py), the  *)
(* preference tracker (agents/semantic_agent.py), the JSON extractor       *)
(* (utils/json_parser.py), the attraction generator                        *)
(* (agents/location_scout_agent.py), the evaluator                         *)
(* (agents/evaluation_agent.py) and the refinement stage of the Plan Trip  *)
(* page (pages/1_Plan_Trip.py).                                            *)
(***************************************************************************)
EXTENDS Integers, Sequences, FiniteSets, TLC

VARIABLES
    \* ---- run_interest_dialogue (main.py) ----
    pc,              \* position in run_interest_dialogue
    turn_count,      \* main.py:248 local turn_count
    asked,           \* questions printed and answered through input(), in order
    history,         \* per loop iteration: service outcome and process_turn result
    state_turns,     \* PreferenceState.turns (update_state calls that saw a sentence)
    profile,         \* <<>> while no TravelProfile exists, else <<profile record>>
    \* ---- trip parameters (collect_basic_info) ----
    total_budget, people, days,
    \* ---- budget filtering ----
    attractions,     \* the Attraction objects, in list order (position = identity)
    selected,        \* result of the last filter_by_budget: positions in attractions
    calls,           \* number of filter_by_budget calls made on this list
    \* ---- run_pipeline, steps 5 and 6 ----
    ppc,             \* position in run_pipeline
    affordable,      \* main.py:403/409 local affordable: positions in attractions
    scheduler_input, \* list handed to create_itinerary at main.py:416
    \* ---- create_itinerary (scheduler_agent.py) ----
    spc,             \* position in create_itinerary
    attraction_idx,  \* scheduler_agent.py:49 local attraction_idx
    day_idx,         \* scheduler_agent.py:50/81 local day_idx
    itinerary,       \* scheduler_agent.py:39 local dict: day number -> DayItinerary
    final_itinerary, \* <<>> until returned, then the CompleteItinerary
    \* ---- PreferenceState (semantic_agent.py update_state) ----
    snippets,        \* PreferenceState.snippets, in list order
    slots,           \* PreferenceState.slots
    global_embedding,\* PreferenceState.global_embedding
    update_calls,    \* number of update_state calls made on this state
    last_parts,      \* the segments of the last utterance given to update_state
    \* ---- JSONParser.parse_response (json_parser.py) ----
    raw_text,        \* the text argument, a sequence of characters
    parse_status,    \* "pending", "returned" or "raised"
    parse_value,     \* the returned value (NoValue until returned)
    \* ---- LocationScoutAgent.generate_attractions ----
    cache_file,      \* <<>> while cache/attractions/<key>.pkl is absent, else <<list>>
    scout_calls,     \* number of generate_attractions calls made with this key
    scout_result,    \* the list returned by the last call
    scout_source,    \* how the last call ended: "none", "cache", "aborted",
                     \* "no_response", "parsed"
    scout_reply,     \* the elements of the array in the service's reply text
    \* ---- EvaluationAgent.evaluate_itinerary ----
    eval_outcome,    \* what generate + parse_response give for the call
    evaluation,      \* <<>> until returned, then <<EvaluationScores>>
    \* ---- Plan Trip page, st.session_state ----
    dialogue_stage, questions_asked, session_profile, chat,
    \* ---- SemanticAgent.split_into_sentences ----
    user_msg,        \* the text argument, a sequence of characters
    split_result     \* <<>> until returned, then <<list of sentences>>

dialogueVars == <<pc, turn_count, asked, history, state_turns, profile>>
tripVars     == <<total_budget, people, days>>
budgetVars   == <<attractions, selected, calls>>
pipelineVars == <<ppc, affordable, scheduler_input>>
schedVars    == <<spc, attraction_idx, day_idx, itinerary, final_itinerary>>
semanticVars == <<snippets, slots, global_embedding, update_calls, last_parts>>
parserVars   == <<raw_text, parse_status, parse_value>>
scoutVars    == <<cache_file, scout_calls, scout_result, scout_source, scout_reply>>
evalVars     == <<eval_outcome, evaluation>>
pageVars     == <<dialogue_stage, questions_asked, session_profile, chat>>
splitVars    == <<user_msg, split_result>>
restVars     == <<parserVars, scoutVars, evalVars, pageVars, splitVars>>
vars == <<pc, turn_count, asked, history, state_turns, profile,
          total_budget, people, days, attractions, selected, calls,
          ppc, affordable, scheduler_input,
          spc, attraction_idx, day_idx, itinerary, final_itinerary,
          snippets, slots, global_embedding, update_calls, last_parts,
          raw_text, parse_status, parse_value,
          cache_file, scout_calls, scout_result, scout_source, scout_reply,
          eval_outcome, evaluation,
          dialogue_stage, questions_asked, session_profile, chat,
          user_msg, split_result>>

Min(a, b) == IF a <= b THEN a ELSE b
Range(seq) == { seq[i] : i \in 1..Len(seq) }

(***************************************************************************)
(* Configuration (config.py)                                               *)
(***************************************************************************)
MAX_DIALOGUE_TURNS == 3
DEFAULT_BUDGET == 600
DEFAULT_PEOPLE == 1
DEFAULT_DAYS == 3

(***************************************************************************)
(* Dialogue: the text-generation service and process_turn                  *)
(***************************************************************************)
\* Questions are word sequences; the empty question is the empty sequence.
NoQuestion     == <<>>
PlainQuestion  == <<"do", "you", "prefer", "museums", "or", "parks">>
BudgetQuestion == <<"what", "is", "your", "budget">>
FallbackQuestion ==
    <<"what", "type", "of", "activities", "or", "attractions", "interest", "you", "most">>

\* What one call of llm_client.generate followed by json_parser.parse_response
\* can give: the call raises, the text holds no parseable JSON, the JSON is an
\* array, or it is an object with some action, question, city and constraints.
ServiceOutcomes ==
    [kind : {"raises", "no_json", "array"}, action : {"none"},
     question : {NoQuestion}, chosen_city : {""}, constraints_valid : {TRUE}]
    \cup
    [kind : {"object"}, action : {"ask_question", "finalize", "bogus"},
     question : {NoQuestion, PlainQuestion, BudgetQuestion},
     chosen_city : {"", "Rome"}, constraints_valid : BOOLEAN]

\* What _get_city_recommendation can return (an LLM city, or a fallback city,
\* which may be the empty first line of an LLM answer).
CityRecs == {"Interlaken", ""}

\* Answers typed at "Your answer: ".
UserAnswers == {"done", "", "hiking and forests"}

create_fallback_response_finalize ==
    [action |-> "finalize", question |-> NoQuestion, chosen_city |-> "",
     constraints_valid |-> TRUE, raised |-> FALSE]

create_fallback_response ==
    [action |-> "ask_question", question |-> FallbackQuestion, chosen_city |-> "",
     constraints_valid |-> TRUE, raised |-> FALSE]

validate_response_default_finalize(data) ==
    [action |-> IF data.action \in {"ask_question", "finalize"}
                THEN data.action ELSE "finalize",
     question |-> data.question, chosen_city |-> data.chosen_city,
     constraints_valid |-> data.constraints_valid, raised |-> FALSE]

validate_response(data) ==
    [action |-> IF data.action \in {"ask_question", "finalize"}
                THEN data.action ELSE "ask_question",
     question |-> data.question, chosen_city |-> data.chosen_city,
     constraints_valid |-> data.constraints_valid, raised |-> FALSE]

process_turn_no_handler(svc, rec) ==
    IF svc.kind # "object"
    THEN [action |-> "none", question |-> NoQuestion, chosen_city |-> "",
          constraints_valid |-> TRUE, raised |-> TRUE]
    ELSE LET response_data == validate_response(svc)
         IN IF response_data.action = "finalize" /\ response_data.chosen_city = ""
            THEN [response_data EXCEPT !.chosen_city = rec]
            ELSE response_data

\* svc: outcome of generate + parse_response; rec: what _get_city_recommendation
\* returns if it is called.  Every exception inside the try block (service
\* error, ValueError of the parser, AttributeError of data.get on a list) ends
\* in _create_fallback_response.
process_turn(svc, rec) ==
    IF svc.kind # "object"
    THEN create_fallback_response
    ELSE LET response_data == validate_response(svc)
         IN IF response_data.action = "finalize" /\ response_data.chosen_city = ""
            THEN [response_data EXCEPT !.chosen_city = rec]
            ELSE response_data

\* create_final_profile: TravelProfile(...) raises a validation error when the
\* constraints (or another field) taken from llm_output do not validate.
create_final_profile(llm_output, rec, via) ==
    [chosen_city |-> IF llm_output.chosen_city = "" THEN rec ELSE llm_output.chosen_city,
     via |-> via,
     raised |-> ~llm_output.constraints_valid]

MentionsBudget_never(question) == FALSE
\* main.py:269  any(word in question.lower() for word in ['budget','price','cost'])
MentionsBudget(question) ==
    \E i \in 1..Len(question) : question[i] \in {"budget", "price", "cost"}

\* main.py:279
IsDoneAnswer(user_response) ==
    user_response \in {"done", "ready", "finalize", "that's all", ""}

max_turns_five == 5

\* main.py:249
max_turns == Min(MAX_DIALOGUE_TURNS, 3)

(***************************************************************************)
(* run_interest_dialogue (main.py:214-336)                                 *)
(***************************************************************************)
\* PreferenceState.slots of a fresh state (data_structures.py:14-21)
SlotNames == <<"activities", "pace", "food", "constraints", "budget", "other">>
FreshSlots == [s \in Range(SlotNames) |-> <<>>]

\* the value of a variable that holds no value yet
NoValue == [t |-> "none"]

IdleParser == raw_text = <<>> /\ parse_status = "idle" /\ parse_value = NoValue
IdleScout ==
    /\ cache_file = <<>> /\ scout_calls = 0
    /\ scout_result = <<>> /\ scout_source = "none"
    /\ scout_reply = [has_array |-> FALSE, elems |-> <<>>]
IdleEval == eval_outcome = NoValue /\ evaluation = <<>>
IdlePage ==
    /\ dialogue_stage = "idle" /\ questions_asked = 0
    /\ session_profile = <<>> /\ chat = <<>>
NotSplit == [done |-> FALSE, list |-> <<>>]
IdleSplit == user_msg = <<>> /\ split_result = NotSplit
IdleRest == IdleParser /\ IdleScout /\ IdleEval /\ IdlePage /\ IdleSplit

IdleScheduler ==
    /\ spc = "idle" /\ attraction_idx = 0 /\ day_idx = 0
    /\ itinerary = <<>> /\ final_itinerary = <<>>
IdleSemantic ==
    /\ snippets = <<>> /\ slots = FreshSlots /\ global_embedding = <<>>
    /\ update_calls = 0 /\ last_parts = <<>>
IdleBudget   == attractions = <<>> /\ selected = <<>> /\ calls = 0
IdlePipeline == ppc = "idle" /\ affordable = <<>> /\ scheduler_input = <<>>
IdleDialogue ==
    /\ pc = "idle" /\ turn_count = 0 /\ asked = <<>> /\ history = <<>>
    /\ state_turns = 0 /\ profile = <<>>

\* State after collect_basic_info: a fresh PreferenceState, valid trip
\* parameters (budget > 0 and people > 0, as TripConstraints requires).
DialogueInit ==
    /\ pc = "start" /\ turn_count = 0 /\ asked = <<>> /\ history = <<>>
    /\ state_turns = 0 /\ profile = <<>>
    /\ total_budget = DEFAULT_BUDGET /\ people = DEFAULT_PEOPLE /\ days = DEFAULT_DAYS
    /\ IdleBudget /\ IdlePipeline /\ IdleScheduler /\ IdleSemantic /\ IdleRest

\* main.py:214-249: the initial message is read and update_state runs on
\* "Budget is ... {initial_msg}", which always holds a sentence.
StartDialogue ==
    /\ pc = "start"
    /\ state_turns' = state_turns + 1
    /\ pc' = "loop"
    /\ UNCHANGED <<turn_count, asked, history, profile>>
    /\ UNCHANGED <<tripVars, budgetVars, pipelineVars, schedVars, semanticVars, restVars>>

\* main.py:251-304: one iteration of the while loop.
DialogueTurn ==
    /\ pc = "loop"
    /\ turn_count < max_turns
    /\ \E svc \in ServiceOutcomes, rec \in CityRecs, rec2 \in CityRecs,
          user_response \in UserAnswers :
        LET response == process_turn(svc, rec)
            question == response.question
            is_asked == /\ response.action = "ask_question"
                        /\ question # NoQuestion
                        /\ ~MentionsBudget(question)
            new_profile == create_final_profile(response, rec2, "finalize")
        IN /\ turn_count' = turn_count + 1
           /\ history' = Append(history,
                                [svc |-> svc, response |-> response, asked |-> is_asked])
           /\ IF response.raised
              THEN /\ pc' = "crashed"
                   /\ UNCHANGED <<asked, state_turns, profile>>
              ELSE IF response.action = "ask_question"
              THEN IF ~is_asked
                   THEN \* continue: empty question or skipped budget question
                        /\ pc' = "loop"
                        /\ UNCHANGED <<asked, state_turns, profile>>
                   ELSE /\ asked' = Append(asked, question)
                        /\ IF IsDoneAnswer(user_response)
                           THEN pc' = "break" /\ UNCHANGED state_turns
                           ELSE pc' = "loop" /\ state_turns' = state_turns + 1
                        /\ UNCHANGED profile
              ELSE \* action = "finalize"
                   /\ IF new_profile.raised
                      THEN pc' = "crashed" /\ UNCHANGED profile
                      ELSE pc' = "done" /\ profile' = <<new_profile>>
                   /\ UNCHANGED <<asked, state_turns>>
    /\ UNCHANGED <<tripVars, budgetVars, pipelineVars, schedVars, semanticVars, restVars>>

\* main.py:306-336: the loop was left without finalizing (turn limit or break).
FinalizeAfterLoop ==
    /\ \/ pc = "loop" /\ turn_count >= max_turns
       \/ pc = "break"
    /\ \E rec \in CityRecs :
        LET new_profile == create_final_profile(
                [chosen_city |-> "", constraints_valid |-> TRUE], rec, "after_loop")
        IN profile' = <<new_profile>>
    /\ pc' = "done"
    /\ UNCHANGED <<turn_count, asked, history, state_turns>>
    /\ UNCHANGED <<tripVars, budgetVars, pipelineVars, schedVars, semanticVars, restVars>>

DialogueNext == StartDialogue \/ DialogueTurn \/ FinalizeAfterLoop

DialogueSpec == DialogueInit /\ [][DialogueNext]_vars

(***************************************************************************)
(* Dialogue properties                                                     *)
(***************************************************************************)
ServiceFinalizes(svc) == svc.kind = "object" /\ svc.action = "finalize"

C3_FailureGivesFallbackQuestion ==
    \A i \in 1..Len(history) :
        history[i].svc.kind # "object" =>
            /\ ~history[i].response.raised
            /\ history[i].response.action = "ask_question"
            /\ history[i].response.question = FallbackQuestion

C3_Witness ==
    \E i \in 1..Len(history) :
        /\ history[i].svc.kind \in {"raises", "no_json"}
        /\ history[i].response.action = "ask_question"
        /\ history[i].asked
        /\ asked[Len(asked)] = FallbackQuestion

MaxItems  == 4     \* longest attraction list
MaxPrice  == 2     \* highest approx_price_per_person
MaxBudget == 5     \* highest total budget
MaxDays   == 2     \* highest day count
MaxPeople == 2     \* largest party
MaxCalls  == 2     \* repeated filter_by_budget calls on one list
MaxRepeatItems == 2  \* longest list filtered repeatedly

\* Optional[float] = None of Attraction.final_price_estimate
NoneVal == -1

Prices       == 0..MaxPrice
Budgets      == (-1)..MaxBudget
DayCounts    == 0..MaxDays
PeopleCounts == 1..MaxPeople

\* float('inf') of the sort key: above every total price of the model
Infinity == MaxPrice * MaxPeople + 1

\* Attraction (data_structures.py): approx_price_per_person is a required
\* field >= 0, final_price_estimate starts as None.  name is the position of
\* the object in the list it was created in.
NewAttraction(i, price) ==
    [name |-> i, approx_price_per_person |-> price, final_price_estimate |-> NoneVal]

AttractionListsUpTo(max_len) ==
    UNION { { [i \in 1..n |-> NewAttraction(i, f[i])] : f \in [1..n -> Prices] }
            : n \in 0..max_len }

AttractionLists == AttractionListsUpTo(MaxItems)

\* Python's  x or default  on an Optional[float]: None and 0 are both falsy.
PyOr(x, default) == IF x = NoneVal \/ x = 0 THEN default ELSE x

\* budget_agent.py:80-84: approx_price_per_person is never None on a validated
\* Attraction, so the first branch always returns.
estimate_price(attraction) == attraction.approx_price_per_person

\* budget_agent.py:34-36: the loop writes final_price_estimate on every object
\* of the input list.
PriceAll_copy(attrs, party) == attrs

PriceAll(attrs, party) ==
    [i \in 1..Len(attrs) |->
        [attrs[i] EXCEPT !.final_price_estimate = estimate_price(attrs[i]) * party]]

SortKey_zero_first(attraction) ==
    IF attraction.final_price_estimate = NoneVal
    THEN Infinity ELSE attraction.final_price_estimate

\* budget_agent.py:40  key=lambda x: x.final_price_estimate or float('inf')
SortKey(attraction) == PyOr(attraction.final_price_estimate, Infinity)

\* Insert position p into the sorted position list, after every position whose
\* key is <= its own (sorted() is stable).
RECURSIVE InsertStable(_, _, _)
InsertStable(attrs, sorted, p) ==
    IF sorted = <<>> THEN <<p>>
    ELSE IF SortKey(attrs[Head(sorted)]) <= SortKey(attrs[p])
         THEN <<Head(sorted)>> \o InsertStable(attrs, Tail(sorted), p)
         ELSE <<p>> \o sorted

RECURSIVE SortedUpTo(_, _)
SortedUpTo(attrs, n) ==
    IF n = 0 THEN <<>> ELSE InsertStable(attrs, SortedUpTo(attrs, n - 1), n)

\* budget_agent.py:39-40  sorted(attractions, key=...): positions in sort order
sorted_attractions(attrs) == SortedUpTo(attrs, Len(attrs))

RECURSIVE SelectLoop_no_budget_test(_, _, _, _, _, _)
SelectLoop_no_budget_test(attrs, order, sel, total_cost, max_attractions, budget) ==
    IF order = <<>> \/ Len(sel) >= max_attractions
    THEN [selected |-> sel, total_cost |-> total_cost]
    ELSE LET attraction_cost == PyOr(attrs[Head(order)].final_price_estimate, 0)
         IN SelectLoop_no_budget_test(attrs, Tail(order), Append(sel, Head(order)),
                                      total_cost + attraction_cost,
                                      max_attractions, budget)

RECURSIVE SelectLoop_drop_free(_, _, _, _, _, _)
SelectLoop_drop_free(attrs, order, sel, total_cost, max_attractions, budget) ==
    IF order = <<>> \/ Len(sel) >= max_attractions
    THEN [selected |-> sel, total_cost |-> total_cost]
    ELSE LET attraction_cost == PyOr(attrs[Head(order)].final_price_estimate, 0)
         IN IF attraction_cost > 0 /\ total_cost + attraction_cost <= budget
            THEN SelectLoop_drop_free(attrs, Tail(order), Append(sel, Head(order)),
                                      total_cost + attraction_cost,
                                      max_attractions, budget)
            ELSE SelectLoop_drop_free(attrs, Tail(order), sel, total_cost,
                                      max_attractions, budget)

RECURSIVE SelectLoop_strict_less(_, _, _, _, _, _)
SelectLoop_strict_less(attrs, order, sel, total_cost, max_attractions, budget) ==
    IF order = <<>> \/ Len(sel) >= max_attractions
    THEN [selected |-> sel, total_cost |-> total_cost]
    ELSE LET attraction_cost == PyOr(attrs[Head(order)].final_price_estimate, 0)
         IN IF total_cost + attraction_cost < budget
            THEN SelectLoop_strict_less(attrs, Tail(order),
                                      Append(sel, Head(order)),
                                      total_cost + attraction_cost,
                                      max_attractions, budget)
            ELSE IF attraction_cost = 0 /\ Len(sel) < max_attractions
            THEN SelectLoop_strict_less(attrs, Tail(order),
                                      Append(sel, Head(order)), total_cost,
                                      max_attractions, budget)
            ELSE SelectLoop_strict_less(attrs, Tail(order), sel, total_cost,
                                      max_attractions, budget)

\* budget_agent.py:43-63: the selection loop over the sorted list.
RECURSIVE SelectLoop(_, _, _, _, _, _)
SelectLoop(attrs, order, sel, total_cost, max_attractions, budget) ==
    IF order = <<>> \/ Len(sel) >= max_attractions
    THEN [selected |-> sel, total_cost |-> total_cost]
    ELSE LET attraction_cost == PyOr(attrs[Head(order)].final_price_estimate, 0)
         IN IF total_cost + attraction_cost <= budget
            THEN SelectLoop(attrs, Tail(order), Append(sel, Head(order)),
                            total_cost + attraction_cost, max_attractions, budget)
            ELSE IF attraction_cost = 0 /\ Len(sel) < max_attractions
            THEN SelectLoop(attrs, Tail(order), Append(sel, Head(order)),
                            total_cost, max_attractions, budget)
            ELSE SelectLoop(attrs, Tail(order), sel, total_cost,
                            max_attractions, budget)

\* budget_agent.py:12-78.  attrs is the list after the pricing loop; the result
\* is the list of selected objects (as positions) and the running total.
filter_by_budget(attrs, budget, day_count, party) ==
    LET max_attractions == day_count * 3
        priced == PriceAll(attrs, party)
    IN SelectLoop(priced, sorted_attractions(priced), <<>>, 0, max_attractions, budget)

BudgetInit ==
    /\ attractions \in AttractionLists
    /\ selected = <<>> /\ calls = 0
    /\ total_budget = DEFAULT_BUDGET /\ people = DEFAULT_PEOPLE /\ days = DEFAULT_DAYS
    /\ IdleDialogue /\ IdlePipeline /\ IdleScheduler /\ IdleSemantic /\ IdleRest

\* One call budget_agent.filter_by_budget(attractions, total_budget, days, people)
CallFilterByBudget ==
    /\ \E budget \in Budgets, day_count \in DayCounts, party \in PeopleCounts :
        /\ attractions' = PriceAll(attractions, party)
        /\ selected' = filter_by_budget(attractions, budget, day_count, party).selected
        /\ total_budget' = budget
        /\ days' = day_count
        /\ people' = party
    /\ calls' = calls + 1
    /\ UNCHANGED <<dialogueVars, pipelineVars, schedVars, semanticVars, restVars>>

\* The function applied once to each input list.
FilterByBudget == calls = 0 /\ CallFilterByBudget

BudgetNext == FilterByBudget

BudgetSpec == BudgetInit /\ [][BudgetNext]_vars

\* The same list object filtered again and again (the agent keeps no state,
\* the Attraction objects do).
RepeatInit ==
    /\ attractions \in AttractionListsUpTo(MaxRepeatItems)
    /\ selected = <<>> /\ calls = 0
    /\ total_budget = DEFAULT_BUDGET /\ people = DEFAULT_PEOPLE /\ days = DEFAULT_DAYS
    /\ IdleDialogue /\ IdlePipeline /\ IdleScheduler /\ IdleSemantic /\ IdleRest

FilterByBudgetAgain == calls < MaxCalls /\ CallFilterByBudget

RepeatNext == FilterByBudgetAgain

RepeatSpec == RepeatInit /\ [][RepeatNext]_vars

(***************************************************************************)
(* run_pipeline, steps 5 and 6 (main.py:398-416)                           *)
(***************************************************************************)
\* attractions[:k] as positions
FirstPositions(k) == [i \in 1..k |-> i]

\* State before step 5: the attractions of steps 3-4 (possibly none) and the
\* trip parameters of collect_basic_info.
PipelineInit ==
    /\ attractions \in AttractionLists
    /\ total_budget \in 0..MaxBudget
    /\ days \in DayCounts
    /\ people \in PeopleCounts
    /\ selected = <<>> /\ calls = 0
    /\ ppc = "budget" /\ affordable = <<>> /\ scheduler_input = <<>>
    /\ IdleDialogue /\ IdleScheduler /\ IdleSemantic /\ IdleRest

\* main.py:398-409: budget filtering, then the "showing all available" branch.
PipelineBudgetStep ==
    /\ ppc = "budget"
    /\ LET result == filter_by_budget(attractions, total_budget, days, people).selected
       IN /\ attractions' = PriceAll(attractions, people)
          /\ selected' = result
          /\ affordable' =
                IF Len(result) < 3
                THEN FirstPositions(Min(Len(attractions), days * 3))
                ELSE result
    /\ calls' = calls + 1
    /\ ppc' = "schedule"
    /\ UNCHANGED <<dialogueVars, tripVars, scheduler_input, schedVars, semanticVars, restVars>>

\* main.py:411-416: affordable is handed to scheduler_agent.create_itinerary.
PipelineCreateItinerary ==
    /\ ppc = "schedule"
    /\ scheduler_input' = affordable
    /\ ppc' = "scheduled"
    /\ UNCHANGED <<dialogueVars, tripVars, budgetVars, affordable, schedVars, semanticVars, restVars>>

PipelineNext == PipelineBudgetStep \/ PipelineCreateItinerary

PipelineSpec == PipelineInit /\ [][PipelineNext]_vars

(***************************************************************************)
(* Budget properties                                                       *)
(***************************************************************************)

\* per-person price x people of the object at position i
TotalPrice(i) == attractions[i].approx_price_per_person * people

RECURSIVE SumPositions(_)
SumPositions(seq) ==
    IF seq = <<>> THEN 0 ELSE TotalPrice(Head(seq)) + SumPositions(Tail(seq))

RECURSIVE SumSet(_)
SumSet(S) ==
    IF S = {} THEN 0
    ELSE LET x == CHOOSE y \in S : TRUE IN TotalPrice(x) + SumSet(S \ {x})

NoDuplicates(seq) == \A i, j \in 1..Len(seq) : seq[i] = seq[j] => i = j

\* C5: the attractions handed to the scheduler by run_pipeline never cost
\* more in total (price x people) than the trip budget.
C5_SchedulerInputWithinBudget ==
    ppc = "scheduled" => SumPositions(scheduler_input) <= total_budget

\* C6: for a budget >= 0 the total prices of the items filter_by_budget
\* returns sum to at most the budget.
C6_SelectedWithinBudget ==
    (calls >= 1 /\ total_budget >= 0) => SumPositions(selected) <= total_budget

C6_Witness ==
    /\ calls >= 1 /\ total_budget >= 0
    /\ SumPositions(selected) = total_budget
    /\ Len(selected) >= 2
    /\ Len(selected) < days * 3
    /\ \E i \in 1..Len(attractions) : i \notin Range(selected)

\* C7: when filter_by_budget returns fewer than days*3 items, every input
\* item whose total price is 0 is in the result, whatever the budget.
C7_FreeItemsAlwaysSelected ==
    (calls >= 1 /\ Len(selected) < days * 3) =>
        \A i \in 1..Len(attractions) : TotalPrice(i) = 0 => i \in Range(selected)

C7_Witness ==
    /\ calls >= 1 /\ Len(selected) < days * 3
    /\ \E i \in Range(selected) : TotalPrice(i) = 0
    /\ \E i \in Range(selected) : TotalPrice(i) > 0
    /\ \E i \in 1..Len(attractions) : i \notin Range(selected)
    /\ SumPositions(selected) = total_budget

Feasible(S) ==
    /\ Cardinality(S) <= days * 3
    /\ SumSet(S) <= total_budget

\* C8: for a budget >= 0 the number of items filter_by_budget returns is the
\* largest size of any set of input items with at most days*3 members and
\* summed total price <= budget.
C8_SelectionHasMaximumSize ==
    (calls >= 1 /\ total_budget >= 0) =>
        /\ NoDuplicates(selected)
        /\ Feasible(Range(selected))
        /\ \A S \in SUBSET (1..Len(attractions)) :
              Feasible(S) => Cardinality(S) <= Len(selected)

C8_Witness ==
    /\ calls >= 1 /\ total_budget >= 0
    /\ Len(selected) >= 1
    /\ Len(selected) < days * 3
    /\ \E i \in 1..Len(attractions) : i \notin Range(selected)
    /\ \E i \in Range(selected) : TotalPrice(i) > 0

\* C9: filter_by_budget takes items cheapest first: no item left out of the
\* result has a strictly lower total price than an item in the result.
C9_CheapestFirst ==
    calls >= 1 =>
        \A i \in 1..Len(attractions) : \A j \in Range(selected) :
            i \notin Range(selected) => ~(TotalPrice(i) < TotalPrice(j))

\* C10 (as stated): filter_by_budget leaves the input list and every field of
\* every input item unchanged.
C10_InputUnchanged ==
    [][attractions' = attractions]_vars

\* C10 (amended): filter_by_budget keeps the input list's length and order and
\* every item's name and per-person price, and its selection depends only on
\* these and on the call's arguments; but it overwrites final_price_estimate
\* of every input item with price x people of the call.
C10_OnlyFinalPriceOverwritten ==
    [][calls' = calls + 1 =>
        /\ Len(attractions') = Len(attractions)
        /\ \A i \in 1..Len(attractions) :
              /\ attractions'[i].name = attractions[i].name
              /\ attractions'[i].approx_price_per_person
                    = attractions[i].approx_price_per_person
              /\ attractions'[i].final_price_estimate
                    = attractions[i].approx_price_per_person * people'
        /\ selected' = filter_by_budget(
              [i \in 1..Len(attractions) |->
                  NewAttraction(attractions[i].name,
                                attractions[i].approx_price_per_person)],
              total_budget', days', people').selected]_vars

C10_Witness ==
    /\ calls = 2
    /\ people = 2
    /\ selected # <<>>
    /\ \E i \in 1..Len(attractions) : attractions[i].final_price_estimate > 0

(***************************************************************************)
(* SchedulerAgent.create_itinerary (agents/scheduler_agent.py:13-139)      *)
(***************************************************************************)
MaxSchedItems == 10
MaxSchedDays  == 4

\* scheduler_agent.py:45
time_slots == <<"morning", "afternoon", "evening">>

\* data_structures.py:65-69: DayItinerary()
DayItinerary == [morning |-> <<>>, afternoon |-> <<>>, evening |-> <<>>]

\* scheduler_agent.py:141-162
create_empty_itinerary ==
    [day1 |-> DayItinerary, day2 |-> DayItinerary, day3 |-> DayItinerary]

\* scheduler_agent.py:58-70: one day of the primary pass, one attraction per
\* slot while attractions remain (idx counts the attractions already placed).
PrimaryFill_morning_only(day, attrs, idx) ==
    [day EXCEPT !.morning =
        @ \o SubSeq(attrs, idx + 1, Min(idx + 3, Len(attrs)))]

PrimaryFill(day, attrs, idx) ==
    [morning   |-> IF idx + 1 <= Len(attrs)
                   THEN Append(day.morning, attrs[idx + 1]) ELSE day.morning,
     afternoon |-> IF idx + 2 <= Len(attrs)
                   THEN Append(day.afternoon, attrs[idx + 2]) ELSE day.afternoon,
     evening   |-> IF idx + 3 <= Len(attrs)
                   THEN Append(day.evening, attrs[idx + 3]) ELSE day.evening]

\* scheduler_agent.py:87-92: min(slot_counts, key=slot_counts.get) over the
\* slots of one day; the first slot in dict order wins a tie.
min_slot_always_morning(day) == "morning"

min_slot(day) ==
    LET fewest == CHOOSE c \in { Len(day[s]) : s \in Range(time_slots) } :
                      \A s \in Range(time_slots) : c <= Len(day[s])
        first  == CHOOSE j \in 1..3 :
                      /\ Len(day[time_slots[j]]) = fewest
                      /\ \A k \in 1..(j - 1) : Len(day[time_slots[k]]) # fewest
    IN time_slots[first]

\* scheduler_agent.py:101: day_idx = (day_idx % days) + 1
next_day_idx_stay(d, day_count) == d

next_day_idx(d, day_count) == (d % day_count) + 1

\* scheduler_agent.py:103-121: the CompleteItinerary keeps day1, day2, day3.
GetDay(itin, d) == IF d \in DOMAIN itin THEN itin[d] ELSE DayItinerary

CompleteItinerary(itin, day_count) ==
    IF day_count = 1
    THEN [day1 |-> itin[1], day2 |-> DayItinerary, day3 |-> DayItinerary]
    ELSE IF day_count = 2
    THEN [day1 |-> itin[1], day2 |-> itin[2], day3 |-> DayItinerary]
    ELSE [day1 |-> GetDay(itin, 1), day2 |-> GetDay(itin, 2),
          day3 |-> GetDay(itin, 3)]

\* A call create_itinerary(scheduler_input, days) about to start: the list
\* holds distinct Attraction objects (named by their position).
SchedulerInit ==
    /\ scheduler_input \in { FirstPositions(n) : n \in 0..MaxSchedItems }
    /\ days \in 0..MaxSchedDays
    /\ total_budget = DEFAULT_BUDGET /\ people = DEFAULT_PEOPLE
    /\ spc = "call" /\ attraction_idx = 0 /\ day_idx = 0
    /\ itinerary = <<>> /\ final_itinerary = <<>>
    /\ ppc = "idle" /\ affordable = <<>>
    /\ IdleDialogue /\ IdleBudget /\ IdleSemantic /\ IdleRest

schedFrame ==
    UNCHANGED <<dialogueVars, tripVars, budgetVars, pipelineVars, semanticVars, restVars>>

\* scheduler_agent.py:24-50: the empty-list return, else the empty days.
CreateItineraryStart ==
    /\ spc = "call"
    /\ IF scheduler_input = <<>>
       THEN /\ final_itinerary' = <<create_empty_itinerary>>
            /\ spc' = "returned"
            /\ UNCHANGED <<attraction_idx, day_idx, itinerary>>
       ELSE /\ itinerary' = [d \in 1..days |-> DayItinerary]
            /\ attraction_idx' = 0
            /\ day_idx' = 1
            /\ spc' = "primary"
            /\ UNCHANGED final_itinerary
    /\ schedFrame

\* scheduler_agent.py:52-72: one iteration of the primary while loop.
PrimaryPassDay ==
    /\ spc = "primary"
    /\ attraction_idx < Len(scheduler_input) /\ day_idx <= days
    /\ itinerary' = [itinerary EXCEPT ![day_idx] =
                        PrimaryFill(@, scheduler_input, attraction_idx)]
    /\ attraction_idx' = Min(attraction_idx + 3, Len(scheduler_input))
    /\ day_idx' = day_idx + 1
    /\ UNCHANGED <<spc, final_itinerary>>
    /\ schedFrame

\* scheduler_agent.py:52, 75-81: the primary loop ends; day_idx restarts at 1
\* when attractions remain.
PrimaryPassExit ==
    /\ spc = "primary"
    /\ ~(attraction_idx < Len(scheduler_input) /\ day_idx <= days)
    /\ IF attraction_idx < Len(scheduler_input)
       THEN spc' = "secondary" /\ day_idx' = 1
       ELSE spc' = "build" /\ UNCHANGED day_idx
    /\ UNCHANGED <<attraction_idx, itinerary, final_itinerary>>
    /\ schedFrame

\* scheduler_agent.py:82-101: one iteration of the secondary while loop;
\* itinerary[f"day{day_idx}"] raises KeyError when that day does not exist.
SecondaryPassStep ==
    /\ spc = "secondary"
    /\ attraction_idx < Len(scheduler_input)
    /\ IF day_idx \notin DOMAIN itinerary
       THEN /\ spc' = "raised"
            /\ UNCHANGED <<attraction_idx, day_idx, itinerary>>
       ELSE /\ itinerary' = [itinerary EXCEPT ![day_idx] =
                   [@ EXCEPT ![min_slot(@)] =
                       Append(@, scheduler_input[attraction_idx + 1])]]
            /\ attraction_idx' = attraction_idx + 1
            /\ day_idx' = next_day_idx(day_idx, days)
            /\ UNCHANGED spc
    /\ UNCHANGED final_itinerary
    /\ schedFrame

\* scheduler_agent.py:82: the secondary loop ends.
SecondaryPassExit ==
    /\ spc = "secondary"
    /\ attraction_idx >= Len(scheduler_input)
    /\ spc' = "build"
    /\ UNCHANGED <<attraction_idx, day_idx, itinerary, final_itinerary>>
    /\ schedFrame

\* scheduler_agent.py:103-139: build and return the CompleteItinerary.
ReturnItinerary ==
    /\ spc = "build"
    /\ final_itinerary' = <<CompleteItinerary(itinerary, days)>>
    /\ spc' = "returned"
    /\ UNCHANGED <<attraction_idx, day_idx, itinerary>>
    /\ schedFrame

SchedulerNext ==
    \/ CreateItineraryStart
    \/ PrimaryPassDay
    \/ PrimaryPassExit
    \/ SecondaryPassStep
    \/ SecondaryPassExit
    \/ ReturnItinerary

SchedulerSpec == SchedulerInit /\ [][SchedulerNext]_vars

\* ---- reading an itinerary ----
RECURSIVE SumOver(_, _)
SumOver(f, S) ==
    IF S = {} THEN 0
    ELSE LET x == CHOOSE y \in S : TRUE IN f[x] + SumOver(f, S \ {x})

\* how often item i occurs in one list
CountIn(seq, i) == Cardinality({ p \in 1..Len(seq) : seq[p] = i })

DayTotal(day) == Len(day.morning) + Len(day.afternoon) + Len(day.evening)

\* how often item i occurs in the returned CompleteItinerary
Occurrences(result, i) ==
    SumOver([c \in {"day1", "day2", "day3"} \X Range(time_slots) |->
                CountIn(result[c[1]][c[2]], i)],
            {"day1", "day2", "day3"} \X Range(time_slots))

TotalScheduled(result) ==
    DayTotal(result.day1) + DayTotal(result.day2) + DayTotal(result.day3)

\* the (day, slot) pairs of the working itinerary and their fill
DaySlots(itin) == (DOMAIN itin) \X Range(time_slots)
Fill(itin, c) == Len(itin[c[1]][c[2]])
IsFewest(itin, c) == \A o \in DaySlots(itin) : Fill(itin, c) <= Fill(itin, o)
SlotIndex(s) == CHOOSE j \in 1..3 : time_slots[j] = s

\* the step places an overflow item at pair c
PlacesOverflowAt(c) ==
    /\ spc = "secondary" /\ attraction_idx' = attraction_idx + 1
    /\ c \in DaySlots(itinerary)
    /\ itinerary'[c[1]][c[2]]
          = Append(itinerary[c[1]][c[2]], scheduler_input[attraction_idx + 1])
    /\ \A o \in DaySlots(itinerary) \ {c} :
          itinerary'[o[1]][o[2]] = itinerary[o[1]][o[2]]

(***************************************************************************)
(* Claims about create_itinerary                                           *)
(***************************************************************************)
\* C11: for every item list and every day count >= 1, each item passed to
\* create_itinerary appears in exactly one (day, slot) of the returned
\* itinerary: none is dropped, none appears twice.
C11_EveryItemExactlyOnce ==
    (spc = "returned" /\ days >= 1) =>
        \A i \in Range(scheduler_input) : Occurrences(final_itinerary[1], i) = 1

C15_AtMostThreePerDay ==
    spc = "returned" =>
        /\ DayTotal(final_itinerary[1].day1) <= 3
        /\ DayTotal(final_itinerary[1].day2) <= 3
        /\ DayTotal(final_itinerary[1].day3) <= 3
        /\ TotalScheduled(final_itinerary[1]) <= 3 * days

\* C16: create_itinerary never fails: for every list (the empty one
\* included) and every day count >= 0 it returns an itinerary.
C16_NeverRaises ==
    days >= 0 => spc # "raised"

(***************************************************************************)
(* SemanticAgent.update_state (agents/semantic_agent.py:42-112)            *)
(***************************************************************************)
MaxParts   == 2
MaxUpdates == 2

\* Embeddings are unit vectors in fixed point (two decimals): the sentence
\* encoder is a fixed function into directions 30 degrees apart, so a dot
\* product is the cosine of the angle between two directions, times Scale^2.
Scale == 100
Cos100Table == <<100, 87, 50, 0, -50, -87, -100, -87, -50, 0, 50, 87>>
Cos100(k) == Cos100Table[(k % 12) + 1]
UnitVector(k) == <<Cos100(k), Cos100(k + 9)>>

\* float(a @ b)
Dot(a, b) == a[1] * b[1] + a[2] * b[2]

\* config.py:40, in hundredths
SIM_UPDATE_THRESHOLD == 75

\* A text is a sequence of tokens; Blank is a segment that is empty after
\* strip().
Blank == <<>>
Sentences == { <<"beaches">>, <<"museums">>, <<"cheap", " ", "hotels">> }

\* emb_model.encode([sentence], normalize_embeddings=True)[0]
\* (semantic_agent.py:71): beaches and museums lie 30 degrees apart, which
\* is similar above the threshold; the third sentence points elsewhere.
encode(sentence) ==
    CASE sentence = <<"beaches">> -> UnitVector(0)
      [] sentence = <<"museums">> -> UnitVector(1)
      [] OTHER                    -> UnitVector(6)

\* semantic_agent.py:20-40: the slot labels in dict order and their embeddings
slot_labels == <<"activities", "pace", "budget", "constraints", "food", "other">>
slot_embeddings ==
    [activities |-> UnitVector(1), pace |-> UnitVector(5), budget |-> UnitVector(6),
     constraints |-> UnitVector(7), food |-> UnitVector(8), other |-> UnitVector(9)]

\* semantic_agent.py:49-58: the first label with the greatest score above -1.0
classify_slot(sentence_emb) ==
    LET score(j) == Dot(sentence_emb, slot_embeddings[slot_labels[j]])
        best == CHOOSE j \in 1..Len(slot_labels) :
                    /\ \A k \in 1..Len(slot_labels) : score(k) <= score(j)
                    /\ \A k \in 1..(j - 1) : score(k) < score(j)
    IN slot_labels[best]

\* semantic_agent.py:44-45 after re.split: the segments that are not blank
split_into_sentences(parts) == SelectSeq(parts, LAMBDA p : p # Blank)

\* semantic_agent.py:75-81: position of the first same-slot snippet with the
\* greatest similarity above -1.0, or 0 when there is none
BestMatch(snips, emb, slot) ==
    LET cand == { i \in 1..Len(snips) :
                    /\ snips[i].slot = slot
                    /\ Dot(emb, snips[i].embedding) > -(Scale * Scale) }
    IN IF cand = {} THEN 0
       ELSE CHOOSE i \in cand :
               /\ \A k \in cand : Dot(emb, snips[k].embedding)
                                      <= Dot(emb, snips[i].embedding)
               /\ \A k \in cand : k < i =>
                     Dot(emb, snips[k].embedding) < Dot(emb, snips[i].embedding)

PreferenceSnippet(text, embedding, slot) ==
    [text |-> text, embedding |-> embedding, slot |-> slot]

\* semantic_agent.py:70-92: the loop over the sentences.  snips is
\* state.snippets (updated in place), new_snippets the list kept aside.
RECURSIVE ProcessSentences_always_append(_, _, _)
ProcessSentences_always_append(snips, new_snippets, sentences) ==
    IF sentences = <<>> THEN [snippets |-> snips, new_snippets |-> new_snippets]
    ELSE LET sentence == Head(sentences)
             emb == encode(sentence)
         IN ProcessSentences_always_append(snips,
                Append(new_snippets,
                       PreferenceSnippet(sentence, emb, classify_slot(emb))),
                Tail(sentences))

RECURSIVE ProcessSentences(_, _, _)
ProcessSentences(snips, new_snippets, sentences) ==
    IF sentences = <<>> THEN [snippets |-> snips, new_snippets |-> new_snippets]
    ELSE LET sentence == Head(sentences)
             emb == encode(sentence)
             slot == classify_slot(emb)
             best_sn == BestMatch(snips, emb, slot)
         IN IF best_sn # 0
               /\ Dot(emb, snips[best_sn].embedding) > SIM_UPDATE_THRESHOLD * Scale
            THEN ProcessSentences(
                    [snips EXCEPT ![best_sn] = [@ EXCEPT !.text = sentence,
                                                         !.embedding = emb]],
                    new_snippets, Tail(sentences))
            ELSE ProcessSentences(snips,
                    Append(new_snippets, PreferenceSnippet(sentence, emb, slot)),
                    Tail(sentences))

\* semantic_agent.py:98-101: the slot texts rebuilt from the snippets
RECURSIVE RebuildLoop(_, _)
RebuildLoop(acc, snips) ==
    IF snips = <<>> THEN acc
    ELSE LET snippet == Head(snips)
             sep == IF acc[snippet.slot] # <<>> THEN <<" ">> ELSE <<>>
         IN RebuildLoop([acc EXCEPT ![snippet.slot] = @ \o sep \o snippet.text],
                        Tail(snips))

RebuildSlots_no_reset(old_slots, snips) == RebuildLoop(old_slots, snips)

RebuildSlots(old_slots, snips) ==
    RebuildLoop([k \in DOMAIN old_slots |-> <<>>], snips)

\* semantic_agent.py:104-105: np.mean(all_embs, axis=0), else None (<<>>)
RECURSIVE VectorSum(_)
VectorSum(embs) ==
    IF embs = <<>> THEN <<0, 0>>
    ELSE LET rest == VectorSum(Tail(embs))
         IN <<Head(embs)[1] + rest[1], Head(embs)[2] + rest[2]>>

MeanEmbedding(snips) ==
    IF snips = <<>> THEN <<>>
    ELSE LET total == VectorSum([i \in 1..Len(snips) |-> snips[i].embedding])
         IN <<total[1] \div Len(snips), total[2] \div Len(snips)>>

\* semantic_agent.py:60-112.  state is a PreferenceState, parts the segments
\* re.split found in the message.
update_state_counts_every_call(state, parts) ==
    LET looped == ProcessSentences(state.snippets, <<>>, split_into_sentences(parts))
        all == looped.snippets \o looped.new_snippets
    IN [snippets |-> all,
        slots |-> RebuildSlots(state.slots, all),
        global_embedding |-> MeanEmbedding(all),
        turns |-> state.turns + 1]

update_state(state, parts) ==
    LET sentences == split_into_sentences(parts)
        looped == ProcessSentences(state.snippets, <<>>, sentences)
        all == looped.snippets \o looped.new_snippets
    IN IF sentences = <<>> THEN state
       ELSE [snippets |-> all,
             slots |-> RebuildSlots(state.slots, all),
             global_embedding |-> MeanEmbedding(all),
             turns |-> state.turns + 1]

RECURSIVE SeqsUpTo(_, _)
SeqsUpTo(S, n) ==
    IF n = 0 THEN { <<>> }
    ELSE LET shorter == SeqsUpTo(S, n - 1)
         IN shorter \cup { Append(q, x) : q \in shorter, x \in S }

\* What re.split hands over for a stripped message (semantic_agent.py:44):
\* one blank segment for an empty message, else segments of which the last
\* is not blank (no whitespace is left after the last terminator).
Utterances ==
    { <<Blank>> } \cup
    { q \in SeqsUpTo(Sentences \cup {Blank}, MaxParts) :
        q # <<>> /\ q[Len(q)] # Blank }

\* A fresh PreferenceState (data_structures.py:13-26).
SemanticInit ==
    /\ snippets = <<>> /\ slots = FreshSlots /\ global_embedding = <<>>
    /\ update_calls = 0 /\ last_parts = <<>>
    /\ total_budget = DEFAULT_BUDGET /\ people = DEFAULT_PEOPLE /\ days = DEFAULT_DAYS
    /\ IdleDialogue /\ IdleBudget /\ IdlePipeline /\ IdleScheduler /\ IdleRest

\* One call semantic_agent.update_state(state, user_msg) on the same state.
UpdateState ==
    /\ update_calls < MaxUpdates
    /\ \E parts \in Utterances :
        LET new == update_state([snippets |-> snippets, slots |-> slots,
                                 global_embedding |-> global_embedding,
                                 turns |-> state_turns], parts)
        IN /\ snippets' = new.snippets
           /\ slots' = new.slots
           /\ global_embedding' = new.global_embedding
           /\ state_turns' = new.turns
           /\ last_parts' = parts
    /\ update_calls' = update_calls + 1
    /\ UNCHANGED <<pc, turn_count, asked, history, profile>>
    /\ UNCHANGED <<tripVars, budgetVars, pipelineVars, schedVars, restVars>>

SemanticNext == UpdateState

SemanticSpec == SemanticInit /\ [][SemanticNext]_vars

(***************************************************************************)
(* Claims about update_state                                               *)
(***************************************************************************)
\* texts joined by single spaces
RECURSIVE JoinSpace(_)
JoinSpace(texts) ==
    IF texts = <<>> THEN <<>>
    ELSE IF Len(texts) = 1 THEN texts[1]
    ELSE texts[1] \o <<" ">> \o JoinSpace(Tail(texts))

SnippetsOf(s) == SelectSeq(snippets, LAMBDA sn : sn.slot = s)
TextsOf(s) == [i \in 1..Len(SnippetsOf(s)) |-> SnippetsOf(s)[i].text]

Similar(a, b) == Dot(a, b) > SIM_UPDATE_THRESHOLD * Scale

\* C17: after any sequence of update_state calls, for every slot s, slots[s]
\* is the texts of the current snippets of slot s joined by single spaces in
\* snippet order.
C17_SlotsAreJoinedSnippetTexts ==
    /\ DOMAIN slots = Range(SlotNames)
    /\ \A i \in 1..Len(snippets) : snippets[i].slot \in DOMAIN slots
    /\ \A s \in DOMAIN slots : slots[s] = JoinSpace(TextsOf(s))

C17_Witness ==
    /\ update_calls = 2
    /\ slots["activities"] = <<"beaches", " ", "museums">>
    /\ slots["budget"] = <<"cheap", " ", "hotels">>
    /\ slots["food"] = <<>>
    /\ Len(snippets) = 3

\* C18: for an update_state call with one sentence: if some existing snippet
\* of the sentence's slot is similar to it strictly above the threshold, the
\* number of snippets stays the same and the best-matching snippet's text and
\* embedding are replaced in place; otherwise the number grows by exactly 1.
C18_SingleSentenceUpdate ==
    [][(update_calls' = update_calls + 1
            /\ Len(split_into_sentences(last_parts')) = 1) =>
        LET sentence == split_into_sentences(last_parts')[1]
            emb == encode(sentence)
            slot == classify_slot(emb)
            same == { i \in 1..Len(snippets) : snippets[i].slot = slot }
        IN IF \E i \in same : Similar(emb, snippets[i].embedding)
           THEN /\ Len(snippets') = Len(snippets)
                /\ \E b \in same :
                      /\ \A i \in same : Dot(emb, snippets[i].embedding)
                                             <= Dot(emb, snippets[b].embedding)
                      /\ snippets'[b] = PreferenceSnippet(sentence, emb, slot)
                      /\ \A i \in 1..Len(snippets) :
                            i # b => snippets'[i] = snippets[i]
           ELSE /\ Len(snippets') = Len(snippets) + 1
                /\ snippets' = Append(snippets,
                                      PreferenceSnippet(sentence, emb, slot))]_vars

C18_Witness ==
    /\ update_calls = 2
    /\ last_parts = << <<"museums">> >>
    /\ Len(snippets) = 2
    /\ snippets[1].text = <<"museums">> /\ snippets[1].embedding = UnitVector(1)
    /\ snippets[2].text = <<"cheap", " ", "hotels">>

\* C19: after any sequence of update_state calls, no two distinct snippets of
\* the same slot are similar above the threshold.
C19_NoSimilarSnippetsInOneSlot ==
    \A i, j \in 1..Len(snippets) :
        (i # j /\ snippets[i].slot = snippets[j].slot) =>
            ~Similar(snippets[i].embedding, snippets[j].embedding)

\* C20: update_state with a text that has no non-empty segment leaves the
\* snippets, the slots, the aggregate embedding and the turn count unchanged.
C20_BlankUtteranceChangesNothing ==
    [][(update_calls' = update_calls + 1
            /\ split_into_sentences(last_parts') = <<>>) =>
        UNCHANGED <<snippets, slots, global_embedding, state_turns>>]_vars

C20_Witness ==
    /\ update_calls = 2
    /\ last_parts = <<Blank>>
    /\ snippets # <<>> /\ global_embedding # <<>>
    /\ state_turns = 1

(***************************************************************************)
(* JSONParser.parse_response (utils/json_parser.py:11-111)                 *)
(*                                                                         *)
(* A text is a sequence of characters.  The characters that matter to the  *)
(* code are kept apart; three backticks, the word "json" (in any case) and *)
(* the word "Here" each count as one character, "a" stands for any other   *)
(* letter and "1" for any digit.                                           *)
(***************************************************************************)
LBrace == "{"
RBrace == "}"
LBracket == "["
RBracket == "]"
Quote == "\""
Backslash == "\\"
Comma == ","
Colon == ":"
Letter == "a"
Digit == "1"
Space == " "
Newline == "\n"
\* three backticks
Fence == "fence"
JsonWord == "json"
HereWord == "Here"

Whitespace == {Space, Newline}

\* str.strip()
RECURSIVE LStrip(_)
LStrip(s) == IF s # <<>> /\ Head(s) \in Whitespace THEN LStrip(Tail(s)) ELSE s
RECURSIVE RStrip(_)
RStrip(s) ==
    IF s # <<>> /\ s[Len(s)] \in Whitespace
    THEN RStrip(SubSeq(s, 1, Len(s) - 1)) ELSE s
Strip(s) == RStrip(LStrip(s))

\* the least index from i on whose character is in chars, Len(s) + 1 when
\* there is none
RECURSIVE FirstIn(_, _, _)
FirstIn(s, i, chars) ==
    IF i > Len(s) THEN Len(s) + 1
    ELSE IF s[i] \in chars THEN i ELSE FirstIn(s, i + 1, chars)

\* the least index from i on whose character is not in chars
RECURSIVE FirstNotIn(_, _, _)
FirstNotIn(s, i, chars) ==
    IF i > Len(s) THEN Len(s) + 1
    ELSE IF s[i] \notin chars THEN i ELSE FirstNotIn(s, i + 1, chars)

\* the least index from i on where two newlines follow each other
RECURSIVE FirstBlankLine(_, _)
FirstBlankLine(s, i) ==
    IF i >= Len(s) THEN Len(s) + 1
    ELSE IF s[i] = Newline /\ s[i + 1] = Newline THEN i
    ELSE FirstBlankLine(s, i + 1)

\* ---- json.loads ----
Failed == [ok |-> FALSE, v |-> NoValue, i |-> 0]
Parsed(value, next) == [ok |-> TRUE, v |-> value, i |-> next]
SkipWs(s, i) == FirstNotIn(s, i, Whitespace)

\* a string body from position j on (the opening quote is at j - 1); a raw
\* newline and an escape other than \" and \\ are rejected
RECURSIVE ScanString(_, _, _)
ScanString(s, j, acc) ==
    IF j > Len(s) THEN Failed
    ELSE IF s[j] = Quote THEN Parsed([t |-> "str", v |-> acc], j + 1)
    ELSE IF s[j] = Backslash
         THEN IF j < Len(s) /\ s[j + 1] \in {Quote, Backslash}
              THEN ScanString(s, j + 2, Append(acc, s[j + 1]))
              ELSE Failed
    ELSE IF s[j] = Newline THEN Failed
    ELSE ScanString(s, j + 1, Append(acc, s[j]))

RECURSIVE ParseValue(_, _)
RECURSIVE ParseMembers(_, _, _)
RECURSIVE ParseElements(_, _, _)

ParseValue(s, i) ==
    LET j == SkipWs(s, i)
    IN IF j > Len(s) THEN Failed
       ELSE IF s[j] = LBrace
            THEN LET k == SkipWs(s, j + 1)
                 IN IF k <= Len(s) /\ s[k] = RBrace
                    THEN Parsed([t |-> "obj", v |-> <<>>], k + 1)
                    ELSE ParseMembers(s, k, <<>>)
       ELSE IF s[j] = LBracket
            THEN LET k == SkipWs(s, j + 1)
                 IN IF k <= Len(s) /\ s[k] = RBracket
                    THEN Parsed([t |-> "arr", v |-> <<>>], k + 1)
                    ELSE ParseElements(s, k, <<>>)
       ELSE IF s[j] = Quote THEN ScanString(s, j + 1, <<>>)
       ELSE IF s[j] = Digit
            THEN LET e == FirstNotIn(s, j, {Digit})
                 IN Parsed([t |-> "num", v |-> SubSeq(s, j, e - 1)], e)
       ELSE Failed

\* "key": value pairs up to the closing brace; a repeated key keeps the last
\* value, as a dict does
ParseMembers(s, i, acc) ==
    LET j == SkipWs(s, i)
    IN IF j > Len(s) \/ s[j] # Quote THEN Failed
       ELSE LET key == ScanString(s, j + 1, <<>>)
            IN IF ~key.ok THEN Failed
               ELSE LET c == SkipWs(s, key.i)
                    IN IF c > Len(s) \/ s[c] # Colon THEN Failed
                       ELSE LET val == ParseValue(s, c + 1)
                            IN IF ~val.ok THEN Failed
                               ELSE LET n == SkipWs(s, val.i)
                                        members ==
                                            [k \in (DOMAIN acc) \cup {key.v.v} |->
                                                IF k = key.v.v THEN val.v ELSE acc[k]]
                                    IN IF n > Len(s) THEN Failed
                                       ELSE IF s[n] = Comma
                                            THEN ParseMembers(s, n + 1, members)
                                       ELSE IF s[n] = RBrace
                                            THEN Parsed([t |-> "obj", v |-> members], n + 1)
                                       ELSE Failed

ParseElements(s, i, acc) ==
    LET val == ParseValue(s, i)
    IN IF ~val.ok THEN Failed
       ELSE LET n == SkipWs(s, val.i)
            IN IF n > Len(s) THEN Failed
               ELSE IF s[n] = Comma
                    THEN ParseElements(s, n + 1, Append(acc, val.v))
               ELSE IF s[n] = RBracket
                    THEN Parsed([t |-> "arr", v |-> Append(acc, val.v)], n + 1)
               ELSE Failed

\* json.loads(s): one value and nothing but whitespace around it
json_loads(s) ==
    LET r == ParseValue(s, 1)
    IN IF r.ok /\ SkipWs(s, r.i) > Len(s) THEN r ELSE Failed

\* ---- the extraction strategies ----
_looks_like_json(text) ==
    LET t == Strip(text)
    IN /\ t # <<>>
       /\ \/ t[1] = LBrace /\ t[Len(t)] = RBrace
          \/ t[1] = LBracket /\ t[Len(t)] = RBracket

\* the least index from i on where chars b follows chars a directly
RECURSIVE FirstPair(_, _, _, _)
FirstPair(s, i, a, b) ==
    IF i >= Len(s) THEN Len(s) + 1
    ELSE IF s[i] = a /\ s[i + 1] = b THEN i
    ELSE FirstPair(s, i + 1, a, b)

\* group 1 of the leftmost match of each pattern, stripped; <<>> when the
\* pattern does not match.  The lazy group ends at the first closing fence,
\* respectively at the first blank line or the end of the text.
\* ```json\s*(.*?)\s*```
FencedJsonGroup(s) ==
    LET i == FirstPair(s, 1, Fence, JsonWord)
        j == FirstIn(s, i + 2, {Fence})
    IN IF i > Len(s) \/ j > Len(s) THEN <<>> ELSE Strip(SubSeq(s, i + 2, j - 1))

\* ```\s*(.*?)\s*```
FencedGroup(s) ==
    LET i == FirstIn(s, 1, {Fence})
        j == FirstIn(s, i + 1, {Fence})
    IN IF i > Len(s) \/ j > Len(s) THEN <<>> ELSE Strip(SubSeq(s, i + 1, j - 1))

\* JSON:\s*(.*?)(?:\n\n|$)
JsonLabelGroup(s) ==
    LET i == FirstPair(s, 1, JsonWord, Colon)
        start == SkipWs(s, i + 2)
    IN IF i > Len(s) THEN <<>>
       ELSE Strip(SubSeq(s, start, FirstBlankLine(s, start) - 1))

\* Here.*?JSON[:\s]*(.*?)(?:\n\n|$)
HereJsonGroup(s) ==
    LET h == FirstIn(s, 1, {HereWord})
        k == FirstIn(s, h + 1, {JsonWord})
        start == FirstNotIn(s, k + 1, Whitespace \cup {Colon})
    IN IF h > Len(s) \/ k > Len(s) THEN <<>>
       ELSE Strip(SubSeq(s, start, FirstBlankLine(s, start) - 1))

patterns(s) ==
    << FencedJsonGroup(s), FencedGroup(s), JsonLabelGroup(s), HereJsonGroup(s) >>

_extract_with_patterns(text) ==
    LET candidates == SelectSeq(patterns(text), _looks_like_json)
    IN IF candidates = <<>> THEN <<>> ELSE candidates[1]

\* the loop of _extract_with_braces from index i on; start is the first "{"
RECURSIVE BraceScan(_, _, _, _, _, _)
BraceScan(text, start, i, brace_count, in_string, escape_next) ==
    IF i > Len(text) THEN <<>>
    ELSE IF escape_next
         THEN BraceScan(text, start, i + 1, brace_count, in_string, FALSE)
    ELSE IF text[i] = Backslash
         THEN BraceScan(text, start, i + 1, brace_count, in_string, TRUE)
    ELSE IF text[i] = Quote
         THEN BraceScan(text, start, i + 1, brace_count, ~in_string, FALSE)
    ELSE IF ~in_string /\ text[i] = LBrace
         THEN BraceScan(text, start, i + 1, brace_count + 1, in_string, FALSE)
    ELSE IF ~in_string /\ text[i] = RBrace
         THEN IF brace_count - 1 = 0
              THEN SubSeq(text, start, i)
              ELSE BraceScan(text, start, i + 1, brace_count - 1, in_string, FALSE)
    ELSE BraceScan(text, start, i + 1, brace_count, in_string, FALSE)

_extract_with_braces(text) ==
    LET start == FirstIn(text, 1, {LBrace})
    IN IF start > Len(text) THEN <<>>
       ELSE BraceScan(text, start, start, 0, FALSE, FALSE)

_extract_entire_text(text) == IF _looks_like_json(text) THEN text ELSE <<>>

\* the string parse_response hands to json.loads, <<>> when no strategy
\* finds one
extracted_json_str(stripped) ==
    LET by_patterns == _extract_with_patterns(stripped)
        by_braces == IF by_patterns = <<>>
                     THEN _extract_with_braces(stripped) ELSE by_patterns
    IN IF by_braces = <<>> THEN _extract_entire_text(stripped) ELSE by_braces

\* parse_response(text): the value returned, or the error raised
Returned(value) == [status |-> "returned", value |-> value]
Raised_as_failure_value(error) ==
    [status |-> "returned", value |-> [t |-> "NoStructureFound"]]
Raised(error) == [status |-> "raised", value |-> [t |-> error]]

parse_response(text) ==
    LET json_str == extracted_json_str(Strip(text))
        loaded == json_loads(json_str)
    IN IF json_str = <<>> THEN Raised("ValueError")
       ELSE IF loaded.ok THEN Returned(loaded.v)
       ELSE Raised("ValueError")

\* ---- the texts the extractor is run on ----
MaxArrayLen == 2

Str(chars) == <<Quote>> \o chars \o <<Quote>>
Member(value) == Str(<<Letter>>) \o <<Colon>> \o value
Obj(value) == <<LBrace>> \o Member(value) \o <<RBrace>>

\* {"a":1} and {"a":"a"}
SimpleObjects == { Obj(<<Digit>>), Obj(Str(<<Letter>>)) }

\* well-formed objects, some with braces, fences or markers inside a string
WellFormedObjects ==
    SimpleObjects \cup
    { <<LBrace, RBrace>>,
      Obj(Obj(<<Digit>>)),
      Obj(<<LBracket, Digit, RBracket>>),
      <<LBrace>> \o Member(<<Digit>>) \o <<Comma, Space>>
          \o Member(<<Digit, Digit>>) \o <<RBrace>>,
      Obj(Str(<<RBrace>>)),
      Obj(Str(<<Backslash, Quote>>)),
      Obj(Str(<<Fence>>)),
      Obj(Str(<<RBrace, Fence, Letter>>)),
      Obj(Str(<<JsonWord, Colon, Space, LBrace, Letter>>)) }

RECURSIVE JoinComma(_)
JoinComma(docs) ==
    IF Len(docs) = 1 THEN docs[1]
    ELSE docs[1] \o <<Comma>> \o JoinComma(Tail(docs))

\* arrays of 1..MaxArrayLen simple objects
ObjectArrays ==
    { <<LBracket>> \o JoinComma(docs) \o <<RBracket>> :
        docs \in UNION { [1..n -> SimpleObjects] : n \in 1..MaxArrayLen } }

OtherWellFormed ==
    { <<LBracket, RBracket>>, <<LBracket, Digit, RBracket>>,
      <<Digit>>, Str(<<Letter>>) }

\* {a:1}  {"a":1  {"a":1,}  [{"a":1},]  a  and the empty text
Malformed ==
    { <<LBrace, Letter, Colon, Digit, RBrace>>,
      <<LBrace>> \o Member(<<Digit>>),
      <<LBrace>> \o Member(<<Digit>>) \o <<Comma, RBrace>>,
      <<LBracket>> \o Obj(<<Digit>>) \o <<Comma, RBracket>>,
      <<Letter>>,
      <<>> }

Documents == WellFormedObjects \cup ObjectArrays \cup OtherWellFormed \cup Malformed

\* the ways a reply wraps its document
Padded(doc) == <<Space>> \o doc \o <<Newline>>
WithPreamble(doc) == <<Letter, Space>> \o doc
WithTrailer(doc) == doc \o <<Space, Letter>>
FencedJson(doc) ==
    <<Letter, Newline, Fence, JsonWord, Newline>> \o doc
        \o <<Newline, Fence, Newline, Letter>>
FencedPlain(doc) ==
    <<Letter, Newline, Fence, Newline>> \o doc \o <<Newline, Fence>>
FencedJsonAfterBraces(doc) ==
    <<Letter, Space, LBrace, Letter, RBrace, Newline, Fence, JsonWord, Newline>>
        \o doc \o <<Newline, Fence, Newline, Letter>>
JsonLabelled(doc) ==
    <<JsonWord, Colon, Space>> \o doc \o <<Newline, Newline, Letter>>
HereLabelled(doc) ==
    <<HereWord, Space, Letter, Space, JsonWord, Colon, Newline>> \o doc

Texts ==
    UNION { { doc, Padded(doc), WithPreamble(doc), WithTrailer(doc),
              FencedJson(doc), FencedPlain(doc), FencedJsonAfterBraces(doc),
              JsonLabelled(doc), HereLabelled(doc) } : doc \in Documents }

ParserInit ==
    /\ raw_text \in Texts
    /\ parse_status = "idle"
    /\ parse_value = NoValue
    /\ total_budget = DEFAULT_BUDGET /\ people = DEFAULT_PEOPLE /\ days = DEFAULT_DAYS
    /\ IdleDialogue /\ IdleBudget /\ IdlePipeline /\ IdleScheduler /\ IdleSemantic
    /\ IdleScout /\ IdleEval /\ IdlePage /\ IdleSplit

\* one call of parse_response(raw_text)
ParseResponse ==
    /\ parse_status = "idle"
    /\ LET r == parse_response(raw_text)
       IN /\ parse_status' = r.status
          /\ parse_value' = r.value
    /\ UNCHANGED raw_text
    /\ UNCHANGED <<dialogueVars, tripVars, budgetVars, pipelineVars, schedVars,
                   semanticVars, scoutVars, evalVars, pageVars, splitVars>>

ParserNext == ParseResponse

ParserSpec == ParserInit /\ [][ParserNext]_vars


\* ---- claims about parse_response ----
JsonKinds == {"obj", "arr", "str", "num"}

\* no strategy yields a string that json.loads accepts
NothingParseable(text) == ~json_loads(extracted_json_str(Strip(text))).ok

\* the trimmed text is itself a well-formed object or array of objects
ExpectedShape(r) ==
    /\ r.ok
    /\ \/ r.v.t = "obj"
       \/ r.v.t = "arr" /\ \A i \in DOMAIN r.v.v : r.v.v[i].t = "obj"

C22_WholeTextParseReturned ==
    (parse_status # "idle" /\ ExpectedShape(json_loads(Strip(raw_text)))) =>
        /\ parse_status = "returned"
        /\ parse_value = json_loads(Strip(raw_text)).v

\* C24: a well-formed object inside a fenced block with commentary around it
\* is returned as the object that parsing the fenced content alone gives.
C24_FencedObjectRecovered ==
    parse_status # "idle" =>
        \A doc \in WellFormedObjects :
            raw_text \in {FencedJson(doc), FencedPlain(doc), FencedJsonAfterBraces(doc)} =>
                /\ parse_status = "returned"
                /\ parse_value = json_loads(doc).v


(***************************************************************************)
(* LocationScoutAgent.generate_attractions                                 *)
(* (agents/location_scout_agent.py:48-77, 119-236, 238-315)                *)
(*                                                                         *)
(* The reply text of the service is kept as the elements of its JSON array *)
(* (or as having no array), each element by the kind that decides what the *)
(* code does with it.  The element at position p yields the attraction     *)
(* named p.                                                                 *)
(***************************************************************************)
MaxElems == 1
MaxScoutCalls == 2
max_retries == 3
max_attractions == 10
min_response_chars == 100
\* the shortest object with a name of two characters: {"name":"ab"}
min_object_chars == 13

\* "valid": an object with a name of two characters or more;
\* "valid_apostrophe": the same with an apostrophe in a string, which the
\*     repair of line 166 turns into a double quote;
\* "trailing_comma": a valid object with a comma before its closing brace,
\*     which json.loads rejects and the repair of line 160 removes;
\* "not_dict", "no_name", "short_name": well-formed JSON that lines 180-188
\*     skip; "unbuildable": an object whose Attraction constructor raises;
\* "broken": a syntax error that no repair removes
ElementKinds ==
    { "valid", "valid_apostrophe", "trailing_comma", "not_dict", "no_name",
      "short_name", "unbuildable", "broken" }
BuildableKinds == { "valid", "valid_apostrophe", "trailing_comma" }

NoArray == [has_array |-> FALSE, elems |-> <<>>]
ArrayOf(elems) == [has_array |-> TRUE, elems |-> elems]

AllValid(n) == [i \in 1..n |-> "valid"]
ValidExcept(n, p, kind) == [i \in 1..n |-> IF i = p THEN kind ELSE "valid"]

\* the replies: no array, every array of up to MaxElems elements, the full
\* batch of max_attractions valid elements, one element more, and the full
\* batch with one element of another kind anywhere
Replies ==
    {NoArray}
    \cup { ArrayOf(e) : e \in UNION { [1..n -> ElementKinds] : n \in 0..MaxElems } }
    \cup { ArrayOf(AllValid(n)) : n \in max_attractions..(max_attractions + 1) }
    \cup { ArrayOf(ValidExcept(max_attractions, p, k)) :
             p \in 1..max_attractions, k \in ElementKinds \ {"valid"} }

HasKind(elems, kinds) == \E i \in DOMAIN elems : elems[i] \in kinds

\* json.loads accepts the array text as it is / after _fix_json_common_issues
DirectParses(elems) == ~HasKind(elems, {"trailing_comma", "broken"})
RepairedParses(elems) == ~HasKind(elems, {"valid_apostrophe", "broken"})

Items(elems) == [i \in DOMAIN elems |-> [id |-> i, kind |-> elems[i]]]

_parse_and_clean_json(reply) ==
    IF ~reply.has_array THEN <<>>
    ELSE IF DirectParses(reply.elems) THEN Items(reply.elems)
    ELSE IF RepairedParses(reply.elems) THEN Items(reply.elems)
    ELSE <<>>

RECURSIVE BuildAttractions(_)
BuildAttractions(raw_data) ==
    IF raw_data = <<>> THEN <<>>
    ELSE IF Head(raw_data).kind \in BuildableKinds
         THEN <<[name |-> Head(raw_data).id]>> \o BuildAttractions(Tail(raw_data))
         ELSE BuildAttractions(Tail(raw_data))

_create_attraction_objects_strict(raw_data) ==
    IF \A i \in DOMAIN raw_data : raw_data[i].kind \in BuildableKinds
    THEN BuildAttractions(raw_data) ELSE <<>>
_create_attraction_objects(raw_data) == BuildAttractions(raw_data)

\* what one attempt of the retry loop gets from the service: an exception, a
\* text of fewer than 100 characters, of exactly 100, or of more
AttemptOutcomes == { "raises", "short", "hundred", "long" }

\* the retry loop from attempt i on; raw is the length class of
\* raw_response so far ("none" for None)
RECURSIVE RetryLoop(_, _, _)
RetryLoop(attempts, i, raw) ==
    IF i > max_retries THEN [aborted |-> FALSE, raw |-> raw]
    ELSE IF attempts[i] = "raises"
         THEN IF i = max_retries THEN [aborted |-> TRUE, raw |-> raw]
              ELSE RetryLoop(attempts, i + 1, raw)
    ELSE IF attempts[i] = "long" THEN [aborted |-> FALSE, raw |-> "long"]
    ELSE RetryLoop(attempts, i + 1, attempts[i])

\* a reply of exactly min_response_chars characters has room for its objects
FitsHundred(reply) ==
    Cardinality({ i \in DOMAIN reply.elems : reply.elems[i] \in BuildableKinds })
        * min_object_chars <= min_response_chars

Take(s, n) == SubSeq(s, 1, Min(n, Len(s)))

\* generate_attractions without a cache hit: the list returned, what is
\* written to the cache file (<<>> for nothing), and how the call ended
generate_new(reply, attempts) ==
    LET loop == RetryLoop(attempts, 1, "none")
        raw_data == _parse_and_clean_json(reply)
        created == _create_attraction_objects(raw_data)
    IN IF loop.aborted
       THEN [result |-> <<>>, saved |-> <<>>, source |-> "aborted"]
       ELSE IF loop.raw \in {"none", "short"}
       THEN [result |-> <<>>, saved |-> <<>>, source |-> "no_response"]
       ELSE [result |-> Take(created, max_attractions), saved |-> created,
             source |-> "parsed"]

ScoutInit ==
    /\ cache_file = <<>> /\ scout_calls = 0
    /\ scout_result = <<>> /\ scout_source = "none"
    /\ scout_reply \in Replies
    /\ total_budget = DEFAULT_BUDGET /\ people = DEFAULT_PEOPLE /\ days = DEFAULT_DAYS
    /\ IdleDialogue /\ IdleBudget /\ IdlePipeline /\ IdleScheduler /\ IdleSemantic
    /\ IdleParser /\ IdleEval /\ IdlePage /\ IdleSplit

scoutFrame ==
    UNCHANGED <<dialogueVars, tripVars, budgetVars, pipelineVars, schedVars,
                semanticVars, parserVars, evalVars, pageVars, splitVars>>

\* generate_attractions(city, refined_profile, constraints) for one cache key
GenerateAttractions ==
    /\ scout_calls < MaxScoutCalls
    /\ scout_calls' = scout_calls + 1
    /\ IF cache_file # <<>>
       THEN /\ scout_result' = cache_file
            /\ scout_source' = "cache"
            /\ UNCHANGED cache_file
       ELSE \E attempts \in [1..max_retries -> AttemptOutcomes] :
               LET g == generate_new(scout_reply, attempts)
               IN /\ ("hundred" \in Range(attempts)) => FitsHundred(scout_reply)
                  /\ scout_result' = g.result
                  /\ scout_source' = g.source
                  /\ cache_file' = IF g.saved # <<>> THEN g.saved ELSE cache_file
    /\ UNCHANGED scout_reply
    /\ scoutFrame

\* the cache file grows older than 24 hours and is no longer loaded
ExpireCache ==
    /\ cache_file # <<>>
    /\ cache_file' = <<>>
    /\ UNCHANGED <<scout_calls, scout_result, scout_source, scout_reply>>
    /\ scoutFrame

ScoutNext == GenerateAttractions \/ ExpireCache

ScoutSpec == ScoutInit /\ [][ScoutNext]_vars


\* ---- claims about generate_attractions ----
\* the positions of the elements an Attraction is built from, in order
KeptIds(elems) ==
    SelectSeq([i \in 1..Len(elems) |-> i], LAMBDA i : elems[i] \in BuildableKinds)
NamesOf(list) == [i \in 1..Len(list) |-> list[i].name]

C25_FallbackOnFailure ==
    (\/ scout_source \in {"aborted", "no_response"}
     \/ scout_source = "parsed" /\ _parse_and_clean_json(scout_reply) = <<>>)
        => scout_result # <<>>

\* C29: generate_attractions never returns more than max_attractions
\* attractions, whether they come from the service or from the cache.
C29_AtMostTen == Len(scout_result) <= max_attractions


(***************************************************************************)
(* EvaluationAgent.evaluate_itinerary (agents/evaluation_agent.py:16-83,   *)
(* 148-182)                                                                *)
(***************************************************************************)
MaxScore == 6
min_score == 1
max_score == 5
default_score == 3

score_keys ==
    << "interest_match", "budget_realism", "logistics",
       "suitability_for_constraints" >>

\* what the response holds under a score key: nothing, a value int() turns
\* into n, a value int() rejects with ValueError or TypeError, or an infinite
\* float, for which int() raises OverflowError
Missing == [t |-> "missing", n |-> 0]
Invalid == [t |-> "invalid", n |-> 0]
Infinite == [t |-> "infinite", n |-> 0]
IntLike(n) == [t |-> "int", n |-> n]
ScoreValues == {Missing, Invalid, Infinite} \cup { IntLike(n) : n \in 0..MaxScore }

NoComment == "(no comment key)"
Comments == { NoComment, "Good itinerary", "" }

\* the outcome of generate() and parse_response(): an exception, a list, or
\* an object with its score values and its comment
RaisesOutcome == [kind |-> "raises", scores |-> <<>>, comment |-> NoComment]
ListOutcome == [kind |-> "list", scores |-> <<>>, comment |-> NoComment]
EvalOutcomes ==
    {RaisesOutcome, ListOutcome}
    \cup [kind : {"dict"}, scores : [Range(score_keys) -> ScoreValues],
          comment : Comments]

Max(a, b) == IF a > b THEN a ELSE b

Scores(im, br, lo, su, comment) ==
    [interest_match |-> im, budget_realism |-> br, logistics |-> lo,
     suitability_for_constraints |-> su, comment |-> comment]

\* one pass of the loop of _validate_scores
ValidatedScore(outcome, key) ==
    IF outcome.kind # "dict" \/ outcome.scores[key].t \in {"missing", "invalid"}
    THEN default_score
    ELSE Max(min_score, Min(max_score, outcome.scores[key].n))

\* the comment of the dictionary _validate_scores returns: the dictionary is
\* built anew from the score keys alone, so setdefault always sets it
ValidatedComment(outcome) == "Evaluation completed"

_validate_scores(outcome) ==
    Scores(ValidatedScore(outcome, score_keys[1]), ValidatedScore(outcome, score_keys[2]),
           ValidatedScore(outcome, score_keys[3]), ValidatedScore(outcome, score_keys[4]),
           ValidatedComment(outcome))

_create_fallback_evaluation ==
    Scores(default_score, default_score, default_score, default_score,
           "Evaluation could not be completed. Using default scores.")

\* int() raises OverflowError, which _validate_scores does not catch
ValidationRaises(outcome) ==
    /\ outcome.kind = "dict"
    /\ \E key \in Range(score_keys) : outcome.scores[key].t = "infinite"

evaluate_itinerary(outcome) ==
    IF outcome.kind = "raises" \/ ValidationRaises(outcome)
    THEN _create_fallback_evaluation
    ELSE _validate_scores(outcome)

EvalInit ==
    /\ eval_outcome \in EvalOutcomes
    /\ evaluation = <<>>
    /\ total_budget = DEFAULT_BUDGET /\ people = DEFAULT_PEOPLE /\ days = DEFAULT_DAYS
    /\ IdleDialogue /\ IdleBudget /\ IdlePipeline /\ IdleScheduler /\ IdleSemantic
    /\ IdleParser /\ IdleScout /\ IdlePage /\ IdleSplit

\* one call evaluate_itinerary(profile, itinerary)
EvaluateItinerary ==
    /\ evaluation = <<>>
    /\ evaluation' = evaluate_itinerary(eval_outcome)
    /\ UNCHANGED eval_outcome
    /\ UNCHANGED <<dialogueVars, tripVars, budgetVars, pipelineVars, schedVars,
                   semanticVars, parserVars, scoutVars, pageVars, splitVars>>

EvalNext == EvaluateItinerary

EvalSpec == EvalInit /\ [][EvalNext]_vars

\* ---- claim about evaluate_itinerary ----
ScoresInRange(outcome) ==
    \A key \in Range(score_keys) :
        /\ outcome.scores[key].t = "int"
        /\ outcome.scores[key].n \in min_score..max_score

\* C26: when the response parses, the evaluation carries the comment given in
\* the response, and the four scores of the response.
C26_CommentAndScoresOfResponse ==
    (evaluation # <<>> /\ eval_outcome.kind = "dict") =>
        /\ eval_outcome.comment # NoComment
               => evaluation.comment = eval_outcome.comment
        /\ ScoresInRange(eval_outcome)
               => \A key \in Range(score_keys) :
                      evaluation[key] = eval_outcome.scores[key].n


(***************************************************************************)
(* SemanticAgent.split_into_sentences on the characters of the text        *)
(* (agents/semantic_agent.py:42-47)                                        *)
(***************************************************************************)
MaxTextLen == 4

FullStop == "."
Bang == "!"
QuestionMark == "?"
TerminalPunctuation == {FullStop, Bang, QuestionMark}

SplitAlphabet == {Letter, Space} \cup TerminalPunctuation

\* re.split(r"[.!?]\s+", s) from index i on; cur is the part collected so far
RECURSIVE re_split(_, _, _)
re_split(s, i, cur) ==
    IF i > Len(s) THEN <<cur>>
    ELSE IF s[i] \in TerminalPunctuation /\ i < Len(s) /\ s[i + 1] \in Whitespace
         THEN <<cur>> \o re_split(s, FirstNotIn(s, i + 1, Whitespace), <<>>)
    ELSE re_split(s, i + 1, Append(cur, s[i]))

RECURSIVE StripEach(_)
StripEach(parts) ==
    IF parts = <<>> THEN <<>>
    ELSE <<Strip(Head(parts))>> \o StripEach(Tail(parts))

\* split_into_sentences(text), text given by its characters
split_text_into_sentences(text) ==
    LET parts == re_split(Strip(text), 1, <<>>)
    IN SelectSeq(StripEach(parts), LAMBDA p : p # <<>>)

SplitInit ==
    /\ user_msg \in UNION { [1..n -> SplitAlphabet] : n \in 0..MaxTextLen }
    /\ split_result = NotSplit
    /\ total_budget = DEFAULT_BUDGET /\ people = DEFAULT_PEOPLE /\ days = DEFAULT_DAYS
    /\ IdleDialogue /\ IdleBudget /\ IdlePipeline /\ IdleScheduler /\ IdleSemantic
    /\ IdleParser /\ IdleScout /\ IdleEval /\ IdlePage

\* one call split_into_sentences(user_msg)
SplitIntoSentences ==
    /\ ~split_result.done
    /\ split_result' = [done |-> TRUE, list |-> split_text_into_sentences(user_msg)]
    /\ UNCHANGED user_msg
    /\ UNCHANGED <<dialogueVars, tripVars, budgetVars, pipelineVars, schedVars,
                   semanticVars, parserVars, scoutVars, evalVars, pageVars>>

SplitNext == SplitIntoSentences

SplitSpec == SplitInit /\ [][SplitNext]_vars

\* C27: the segments returned carry no terminal punctuation at their end, the
\* last segment of the text included, and none of them is empty or blank.
C27_TerminalPunctuationRemoved ==
    split_result.done =>
        \A i \in DOMAIN split_result.list :
            LET segment == split_result.list[i]
            IN /\ segment # <<>>
               /\ Strip(segment) # <<>>
               /\ segment[Len(segment)] \notin TerminalPunctuation


(***************************************************************************)
(* The Plan Trip page (pages/1_Plan_Trip.py:138-163, 346-477, 483-597)     *)
(*                                                                         *)
(* One action is one run of the page script.  TravelPlanner in main.py has *)
(* no start_refinement, process_refinement_turn or run_pipeline_from_      *)
(* profile; the steps they return follow the dialogue controller of the    *)
(* specification: the first step always asks, a later step asks or         *)
(* finalizes with a profile, as the service chooses.  The question of a    *)
(* step may be empty, as _validate_response leaves it                      *)
(* (interest_refinement_agent.py:200-223).  The cap on the questions is    *)
(* the page's.                                                             *)
(***************************************************************************)
MaxChat == 8
max_questions == 3

NullProfile == <<>>
FinalProfile == [chosen_city |-> "Rome"]

AskStep(question) == [action |-> "ask_question", question |-> question, profile |-> NullProfile]
FinalizeStep == [action |-> "finalize", question |-> NoQuestion, profile |-> FinalProfile]

\* what start_refinement / process_refinement_turn can return
StartSteps == { AskStep(NoQuestion), AskStep(PlainQuestion) }
TurnSteps == StartSteps \cup {FinalizeStep}

\* ensure_first_question_exists with the steps of the two calls of
\* start_refinement (the second is made when the first question is empty)
FirstQuestion(step, retry_step) ==
    IF step.question # NoQuestion THEN step.question ELSE retry_step.question

pageFrame ==
    UNCHANGED <<dialogueVars, tripVars, budgetVars, pipelineVars, schedVars,
                semanticVars, parserVars, scoutVars, evalVars, splitVars>>

PageInit ==
    /\ dialogue_stage = "idle" /\ questions_asked = 0
    /\ session_profile = NullProfile /\ chat = <<>>
    /\ total_budget = DEFAULT_BUDGET /\ people = DEFAULT_PEOPLE /\ days = DEFAULT_DAYS
    /\ IdleDialogue /\ IdleBudget /\ IdlePipeline /\ IdleScheduler /\ IdleSemantic
    /\ IdleParser /\ IdleScout /\ IdleEval /\ IdleSplit

\* the Clear button
ClickClear ==
    /\ chat' = <<>>
    /\ dialogue_stage' = "idle"
    /\ session_profile' = NullProfile
    /\ questions_asked' = 0
    /\ pageFrame

\* the Start button with preferences entered
ClickStart ==
    /\ \E step \in StartSteps, retry_step \in StartSteps :
          LET q == FirstQuestion(step, retry_step)
          IN /\ chat' = IF q # NoQuestion THEN <<"assistant">> ELSE <<>>
             /\ questions_asked' = IF q # NoQuestion THEN Max(1, 0) ELSE 0
    /\ session_profile' = NullProfile
    /\ dialogue_stage' = "refine"
    /\ pageFrame

\* a run of the script in stage 'refine' while the chat is still empty
RerunFirstQuestion ==
    /\ dialogue_stage = "refine" /\ chat = <<>>
    /\ \E step \in StartSteps, retry_step \in StartSteps :
          LET q == FirstQuestion(step, retry_step)
          IN /\ chat' = IF q # NoQuestion THEN <<"assistant">> ELSE chat
             /\ questions_asked' =
                    IF q # NoQuestion THEN Max(1, questions_asked) ELSE questions_asked
    /\ UNCHANGED <<dialogue_stage, session_profile>>
    /\ pageFrame

\* the user answers in the chat input: the 'refine' handler
AnswerQuestion ==
    /\ dialogue_stage = "refine" /\ chat # <<>>
    /\ Len(chat) < MaxChat
    /\ \E step \in TurnSteps, retry_step \in TurnSteps :
          LET answered == Append(chat, "user")
              q == FirstQuestion(step, retry_step)
          IN IF step.action = "ask_question"
             THEN IF questions_asked >= max_questions
                  THEN /\ dialogue_stage' = "llm_attractions"
                       /\ chat' = answered
                       /\ UNCHANGED <<questions_asked, session_profile>>
                  ELSE /\ chat' = IF q # NoQuestion
                                  THEN Append(answered, "assistant") ELSE answered
                       /\ questions_asked' =
                              IF q # NoQuestion THEN questions_asked + 1
                              ELSE questions_asked
                       /\ UNCHANGED <<dialogue_stage, session_profile>>
             ELSE /\ session_profile' = step.profile
                  /\ dialogue_stage' = "llm_attractions"
                  /\ chat' = answered
                  /\ UNCHANGED questions_asked
    /\ pageFrame

\* the button 'Continue to build full itinerary', which stage
\* 'llm_attractions' shows only past the check of the profile
ContinueToPipeline ==
    /\ dialogue_stage = "llm_attractions"
    /\ session_profile # NullProfile
    /\ dialogue_stage' = "running_pipeline"
    /\ UNCHANGED <<questions_asked, session_profile, chat>>
    /\ pageFrame

RunPipeline ==
    /\ dialogue_stage = "running_pipeline"
    /\ dialogue_stage' = "preview"
    /\ UNCHANGED <<questions_asked, session_profile, chat>>
    /\ pageFrame

OpenResults ==
    /\ dialogue_stage = "preview"
    /\ dialogue_stage' = "done"
    /\ UNCHANGED <<questions_asked, session_profile, chat>>
    /\ pageFrame

PageNext ==
    \/ ClickClear
    \/ ClickStart
    \/ RerunFirstQuestion
    \/ AnswerQuestion
    \/ ContinueToPipeline
    \/ RunPipeline
    \/ OpenResults

PageSpec == PageInit /\ [][PageNext]_vars

\* C28: the dialogue leaves stage 'refine' only with a finalized profile: in
\* the stages after it the session holds a profile, also when a step asks
\* again after max_questions questions.
C28_ProfileAfterRefine ==
    dialogue_stage \in {"llm_attractions", "running_pipeline", "preview", "done"}
        => session_profile # NullProfile


(***************************************************************************)
(* Dialogue: questions and the turn budget                                 *)
(***************************************************************************)
\* the turns whose result is a question the loop puts to the user: action
\* 'ask_question', a question that is not empty and names neither budget,
\* price nor cost
PutToUser(response) ==
    /\ response.action = "ask_question"
    /\ response.question # NoQuestion
    /\ \A i \in 1..Len(response.question) :
           response.question[i] \notin {"budget", "price", "cost"}

\* C30 (as claimed): every result with action 'ask_question' carries a
\* non-empty question, and every turn that does not finalize puts a question
\* to the user.
C30_EveryAskCarriesQuestion ==
    \A i \in DOMAIN history :
        history[i].response.action = "ask_question" =>
            /\ history[i].response.question # NoQuestion
            /\ history[i].asked

\* C30 (amended): a result with action 'ask_question' may carry an empty
\* question.  Every call of process_turn consumes one turn of the budget, and
\* a turn puts a question to the user exactly when its result has action
\* 'ask_question' with a question that is not empty and does not name
\* budget, price or cost: the questions asked are those of these turns, in
\* order.
C30_TurnsAskOnlyUsableQuestions ==
    LET put == SelectSeq(history, LAMBDA h : PutToUser(h.response))
    IN /\ turn_count = Len(history)
       /\ turn_count <= max_turns
       /\ Len(asked) = Len(put)
       /\ \A i \in 1..Len(asked) : asked[i] = put[i].response.question

C30_Witness ==
    /\ turn_count = 2
    /\ history[1].response.action = "ask_question"
    /\ history[1].response.question = NoQuestion
    /\ history[2].response.question = PlainQuestion
    /\ asked = <<PlainQuestion>>

====
